---- MODULE Spec2Model ----
(***************************************************************************)
(* Model of utils.py: get_image_date, get_week_range,                      *)
(* organize_photos_by_week and create_slideshow_video.                     *)
(*                                                                         *)
(* A datetime is a record [ord, sec]: the proleptic Gregorian ordinal of   *)
(* its calendar date (datetime.toordinal()) and the second of the day.     *)
(* A label string is the tuple of the numbers formatted into it.  The     *)
(* content of an upload and its temp file are named by its arrival index.  *)
(***************************************************************************)
EXTENDS Integers, Sequences, FiniteSets, TLC

VARIABLES
    pc,                     \* position of the running function
    date, week,             \* get_week_range: argument, returned triple
    image_path, clock, image_date,  \* get_image_date: file, now(), returned datetime
    uploaded_files,         \* the batch handed to organize / create_slideshow
    idx,                    \* position of the for loop over the batch / sorted list
    result_folders,         \* organize: folder_name -> list of names
    output_dir,             \* organize: <<folder_name, name>> -> content stored there
    tmp_dir,                \* temporary files that exist (ids = arrival index)
    image_files_with_dates, \* slideshow: list of (tmp_path, image_date, name)
    temp_files,             \* slideshow: list of temp paths to delete
    frames,                 \* slideshow: tmp paths written to the encoder, in order
    processed_count,        \* slideshow: counter of written frames
    env,                    \* slideshow: what the encoder/filesystem does this run
    video_filename,         \* slideshow: label the output file is named after
    ret                     \* slideshow: returned (video_path, message)

vars == <<pc, date, week, image_path, clock, image_date, uploaded_files, idx,
          result_folders, output_dir, tmp_dir, image_files_with_dates,
          temp_files, frames, processed_count, env, video_filename, ret>>

None == "None"
\* the absent datetime (no date has ordinal 0)
NoDate == [ord |-> 0, sec |-> 0]

-----------------------------------------------------------------------------
(* Calendar arithmetic of datetime (ordinals, weekday, isocalendar, strptime) *)

IsLeap(y) == y % 4 = 0 /\ (y % 100 # 0 \/ y % 400 = 0)

DaysInMonth(y, m) ==
    IF m = 2 THEN (IF IsLeap(y) THEN 29 ELSE 28)
    ELSE IF m \in {4, 6, 9, 11} THEN 30 ELSE 31

RECURSIVE DaysBeforeMonth(_, _)
DaysBeforeMonth(y, m) ==
    IF m = 1 THEN 0 ELSE DaysBeforeMonth(y, m - 1) + DaysInMonth(y, m - 1)

DaysBeforeYear(y) ==
    (y - 1) * 365 + ((y - 1) \div 4) - ((y - 1) \div 100) + ((y - 1) \div 400)

ymd2ord(y, m, d) == DaysBeforeYear(y) + DaysBeforeMonth(y, m) + d

\* datetime's ordinal -> (year, month, day), as _ord2ymd computes it
ord2ymd(ordinal) ==
    LET n0   == ordinal - 1
        n400 == n0 \div 146097
        r400 == n0 % 146097
        n100 == r400 \div 36524
        r100 == r400 % 36524
        n4   == r100 \div 1461
        r4   == r100 % 1461
        n1   == r4 \div 365
        n    == r4 % 365
        year == n400 * 400 + 1 + n100 * 100 + n4 * 4 + n1
    IN  IF n1 = 4 \/ n100 = 4
        THEN [year |-> year - 1, month |-> 12, day |-> 31]
        ELSE LET guess == (n + 50) \div 32
                 prec  == DaysBeforeMonth(year, guess)
                 month == IF prec > n THEN guess - 1 ELSE guess
                 before == DaysBeforeMonth(year, month)
             IN  [year |-> year, month |-> month, day |-> n - before + 1]

\* date.weekday(): Monday = 0 .. Sunday = 6
weekday_sunday0(d) == d.ord % 7
weekday(d) == (d.ord + 6) % 7

\* date - timedelta(days = n), date + timedelta(days = n)
minus_days(d, n) == [ord |-> d.ord - n, sec |-> d.sec]
plus_days(d, n) == [ord |-> d.ord + n, sec |-> d.sec]

\* date.isocalendar()[1]
isoweek1monday(year) ==
    LET firstday     == ymd2ord(year, 1, 1)
        firstweekday == (firstday + 6) % 7
        week1monday  == firstday - firstweekday
    IN  IF firstweekday > 3 THEN week1monday + 7 ELSE week1monday

isoweek(d) ==
    LET year  == ord2ymd(d.ord).year
        today == d.ord
        w     == (today - isoweek1monday(year)) \div 7
    IN  IF w < 0
        THEN ((today - isoweek1monday(year - 1)) \div 7) + 1
        ELSE IF w >= 52 /\ today >= isoweek1monday(year + 1)
             THEN 1
             ELSE w + 1

-----------------------------------------------------------------------------
(* get_week_range *)

get_week_range_sunday(d) ==
    LET start_of_week == minus_days(d, weekday_sunday0(d))
        end_of_week   == plus_days(start_of_week, 6)
        s             == ord2ymd(start_of_week.ord)
        e             == ord2ymd(end_of_week.ord)
    IN  [folder_name |-> <<s.year % 100, s.month, s.day, e.day>>,
         start |-> start_of_week, end |-> end_of_week]

get_week_range_midnight(d) ==
    LET start_of_week == [ord |-> d.ord - weekday(d), sec |-> 0]
        end_of_week   == plus_days(start_of_week, 6)
        s             == ord2ymd(start_of_week.ord)
        e             == ord2ymd(end_of_week.ord)
    IN  [folder_name |-> <<s.year % 100, s.month, s.day, e.day>>,
         start |-> start_of_week, end |-> end_of_week]

\* folder_name "YY(MM-DD ~ DD)" is the tuple <<YY, MM, DD, DD>>
get_week_range(d) ==
    LET start_of_week == minus_days(d, weekday(d))
        end_of_week   == plus_days(start_of_week, 6)
        s             == ord2ymd(start_of_week.ord)
        e             == ord2ymd(end_of_week.ord)
    IN  [folder_name |-> <<s.year % 100, s.month, s.day, e.day>>,
         start |-> start_of_week, end |-> end_of_week]

-----------------------------------------------------------------------------
(* get_image_date *)

DateTags == {"DateTime", "DateTimeOriginal", "DateTimeDigitized"}

\* An EXIF date string "YYYY:MM:DD HH:MM:SS" is the tuple of its six numbers.
\* strptime accepts it when the numbers form a real date and time of day.
strptime_ok(data) ==
    /\ data[1] >= 1 /\ data[1] <= 9999
    /\ data[2] \in 1..12
    /\ data[3] >= 1 /\ data[3] <= DaysInMonth(data[1], data[2])
    /\ data[4] \in 0..23 /\ data[5] \in 0..59 /\ data[6] \in 0..59

strptime(data) ==
    [ord |-> ymd2ord(data[1], data[2], data[3]),
     sec |-> data[4] * 3600 + data[5] * 60 + data[6]]

\* second try block: os.path.getctime, then datetime.now()
ctime_or_now(f, now) == IF f.ctime # NoDate THEN f.ctime ELSE now

\* index of the first tag of the for loop that one of the three branches takes
RECURSIVE first_date_tag(_, _)
first_date_tag(exifdata, i) ==
    IF i > Len(exifdata) THEN 0
    ELSE IF exifdata[i][1] \in DateTags THEN i
    ELSE first_date_tag(exifdata, i + 1)

\* f: [opens, exif, ctime]; exif is the tag list in the order the image stores it
get_image_date(f, now) ==
    IF ~f.opens THEN ctime_or_now(f, now)
    ELSE LET i == first_date_tag(f.exif, 1)
         IN  IF i = 0 THEN ctime_or_now(f, now)
             ELSE IF strptime_ok(f.exif[i][2]) THEN strptime(f.exif[i][2])
             ELSE ctime_or_now(f, now)

-----------------------------------------------------------------------------
(* Bounds and input sets *)

NumDays == 400
MaxTags == 3
MaxBatch == 3

FirstDay == ymd2ord(2023, 12, 18)
Days == FirstDay .. (FirstDay + NumDays - 1)
Secs == {0, 1, 43200, 86399}
Timestamps == [ord : Days, sec : Secs]

\* the run's datetime.now(), also the creation time of a temp file written now
Now == [ord |-> ymd2ord(2024, 12, 31), sec |-> 43200]

NoWeek == [folder_name |-> <<>>, start |-> NoDate, end |-> NoDate]

-----------------------------------------------------------------------------
(* Specification of get_week_range over the timestamps of the window *)

InitWeek ==
    /\ pc = "week"
    /\ date \in Timestamps
    /\ week = NoWeek
    /\ image_path = None /\ clock = Now /\ image_date = NoDate
    /\ uploaded_files = <<>> /\ idx = 0
    /\ result_folders = <<>> /\ output_dir = <<>> /\ tmp_dir = {}
    /\ image_files_with_dates = <<>> /\ temp_files = <<>> /\ frames = <<>>
    /\ processed_count = 0 /\ env = None /\ video_filename = <<>>
    /\ ret = None

CallGetWeekRange ==
    /\ pc = "week"
    /\ week' = get_week_range(date)
    /\ pc' = "week_done"
    /\ UNCHANGED <<date, image_path, clock, image_date, uploaded_files, idx,
                   result_folders, output_dir, tmp_dir, image_files_with_dates,
                   temp_files, frames, processed_count, env, video_filename, ret>>

NextWeek == CallGetWeekRange

SpecWeek == InitWeek /\ [][NextWeek]_vars

\* Monday 2024-01-01 anchors the calendar: a day is a Monday when it is a
\* whole number of weeks away from it.
IsMonday(o) == (o - ymd2ord(2024, 1, 1)) % 7 = 0
MondayOnOrBefore(o) == CHOOSE m \in (o - 6)..o : IsMonday(m)
minus_second(d) ==
    IF d.sec = 0 THEN [ord |-> d.ord - 1, sec |-> 86399]
    ELSE [ord |-> d.ord, sec |-> d.sec - 1]

\* C1: for a Monday timestamp, every timestamp of the following days up to and
\* including the Sunday six days later gets the label of the Monday; one second
\* before Monday 00:00:00 gets a different label, that of the week starting
\* seven days earlier.
C1_SameWeekSameLabel ==
    (pc = "week_done" /\ IsMonday(date.ord)) =>
        /\ \A k \in 0..6 : \A s \in Secs :
              get_week_range([ord |-> date.ord + k, sec |-> s]).folder_name
                  = week.folder_name
        /\ get_week_range(plus_days(date, 6)).folder_name = week.folder_name
        /\ date.sec = 0 =>
              /\ get_week_range(minus_second(date)).folder_name # week.folder_name
              /\ get_week_range(minus_second(date)).folder_name
                     = get_week_range(minus_days(date, 7)).folder_name
              /\ get_week_range(minus_second(date)).start.ord = date.ord - 7

C1_Witness ==
    /\ pc = "week_done" /\ IsMonday(date.ord) /\ date.sec = 0
    /\ week.folder_name = <<24, 12, 30, 5>>

\* C2 as stated: start is midnight of the Monday on or before the date of the
\* timestamp, and end is start + 6 days.
C2_StartAtMidnight ==
    pc = "week_done" =>
        /\ week.start = [ord |-> MondayOnOrBefore(date.ord), sec |-> 0]
        /\ week.end = [ord |-> week.start.ord + 6, sec |-> week.start.sec]

\* C2 amended: start is on the Monday on or before the date of the timestamp
\* and keeps the timestamp's time of day; end is start + 6 days.
C2_StartKeepsTimeOfDay ==
    pc = "week_done" =>
        /\ week.start = [ord |-> MondayOnOrBefore(date.ord), sec |-> date.sec]
        /\ week.end = [ord |-> week.start.ord + 6, sec |-> week.start.sec]

C2_Witness ==
    /\ pc = "week_done" /\ date.sec = 43200 /\ ~IsMonday(date.ord)
    /\ week.start.sec = 43200 /\ week.start.ord < date.ord

-----------------------------------------------------------------------------
(* Specification of get_image_date over images with up to MaxTags EXIF tags *)

ExifTags == DateTags \cup {"Make"}
ExifValues == { <<2024, 1, 10, 9, 30, 0>>,     \* "2024:01:10 09:30:00"
                <<2024, 3, 1, 12, 0, 0>>,      \* "2024:03:01 12:00:00"
                <<0, 0, 0, 0, 0, 0>> }         \* "0000:00:00 00:00:00"

ExifOfLen(k) ==
    { e \in [1..k -> ExifTags \X ExifValues] :
        \A i, j \in 1..k : i # j => e[i][1] # e[j][1] }
ExifSeqs == UNION { ExifOfLen(k) : k \in 0..MaxTags }

StoredAt == [ord |-> ymd2ord(2024, 6, 3), sec |-> 1]

ImageFiles == [opens : BOOLEAN, exif : ExifSeqs, ctime : {StoredAt, NoDate}]

InitDate ==
    /\ pc = "date"
    /\ image_path \in ImageFiles
    /\ clock = Now
    /\ image_date = NoDate
    /\ date = NoDate /\ week = NoWeek
    /\ uploaded_files = <<>> /\ idx = 0
    /\ result_folders = <<>> /\ output_dir = <<>> /\ tmp_dir = {}
    /\ image_files_with_dates = <<>> /\ temp_files = <<>> /\ frames = <<>>
    /\ processed_count = 0 /\ env = None /\ video_filename = <<>>
    /\ ret = None

CallGetImageDate ==
    /\ pc = "date"
    /\ image_date' = get_image_date(image_path, clock)
    /\ pc' = "date_done"
    /\ UNCHANGED <<date, week, image_path, clock, uploaded_files, idx,
                   result_folders, output_dir, tmp_dir, image_files_with_dates,
                   temp_files, frames, processed_count, env, video_filename, ret>>

NextDate == CallGetImageDate

SpecDate == InitDate /\ [][NextDate]_vars

\* the value of a tag when the image stores it and it parses
HasParsed(f, tag) ==
    \E i \in 1..Len(f.exif) : f.exif[i][1] = tag /\ strptime_ok(f.exif[i][2])
ParsedOf(f, tag) ==
    strptime(f.exif[CHOOSE i \in 1..Len(f.exif) :
                        f.exif[i][1] = tag /\ strptime_ok(f.exif[i][2])][2])

PreferenceOrder(f, now) ==
    IF f.opens /\ HasParsed(f, "DateTimeOriginal")
        THEN ParsedOf(f, "DateTimeOriginal")
    ELSE IF f.opens /\ HasParsed(f, "DateTimeDigitized")
        THEN ParsedOf(f, "DateTimeDigitized")
    ELSE IF f.opens /\ HasParsed(f, "DateTime")
        THEN ParsedOf(f, "DateTime")
    ELSE IF f.ctime # NoDate THEN f.ctime
    ELSE now

\* C3: the returned date is that of the first field, in the order
\* DateTimeOriginal, DateTimeDigitized, DateTime, that is stored and parses,
\* whatever the stored order and whatever unparseable fields are present;
\* without one it is the file creation time, and without that the current time.
C3_FixedPreferenceOrder ==
    pc = "date_done" =>
        image_date = PreferenceOrder(image_path, clock)

-----------------------------------------------------------------------------
(* organize_photos_by_week *)

\* uploaded_file.type "major/minor" is the pair <<major, minor>>
is_image(f) == f.type[1] = "image"

\* the NamedTemporaryFile holding the upload's bytes, created during the run
tmp_file(f, now) == [opens |-> f.opens, exif |-> f.exif, ctime |-> now]

record_result_prepend(folders, folder_name, name) ==
    IF folder_name \notin DOMAIN folders
    THEN (folder_name :> <<name>>) @@ folders
    ELSE [folders EXCEPT ![folder_name] = <<name>> \o @]

\* result_folders[folder_name].append(name), creating the list when missing
record_result(folders, folder_name, name) ==
    IF folder_name \notin DOMAIN folders
    THEN (folder_name :> <<name>>) @@ folders
    ELSE [folders EXCEPT ![folder_name] = Append(@, name)]

\* shutil.copy2(tmp_path, folder_path/name): the path gets the content
copy2(dir, folder_name, name, content) ==
    [p \in DOMAIN dir \cup {<<folder_name, name>>} |->
        IF p = <<folder_name, name>> THEN content ELSE dir[p]]

OrganizeUploads ==
    [name : {"a.jpg", "b.jpg"}, type : {<<"image", "jpeg">>}, opens : {TRUE},
     exif : { <<>>,
              << <<"DateTimeOriginal", <<2024, 1, 10, 9, 30, 0>>>> >>,
              << <<"DateTime", <<2024, 1, 8, 0, 0, 0>>>> >> },
     decodable : {TRUE}]
    \cup
    [name : {"n.pdf"}, type : {<<"application", "pdf">>}, opens : {FALSE},
     exif : {<<>>}, decodable : {FALSE}]

Batches(uploads) == UNION { [1..k -> uploads] : k \in 0..MaxBatch }

InitOrganize ==
    /\ pc = "organize"
    /\ uploaded_files \in Batches(OrganizeUploads)
    /\ idx = 1
    /\ clock = Now
    /\ result_folders = <<>> /\ output_dir = <<>> /\ tmp_dir = {}
    /\ date = NoDate /\ week = NoWeek
    /\ image_path = None /\ image_date = NoDate
    /\ image_files_with_dates = <<>> /\ temp_files = <<>> /\ frames = <<>>
    /\ processed_count = 0 /\ env = None /\ video_filename = <<>>
    /\ ret = None

\* one iteration of the for loop; the temp file is written and unlinked in it
OrganizeOne ==
    /\ pc = "organize"
    /\ idx <= Len(uploaded_files)
    /\ LET uploaded_file == uploaded_files[idx]
           d             == get_image_date(tmp_file(uploaded_file, clock), clock)
           folder_name   == get_week_range(d).folder_name
       IN  IF is_image(uploaded_file)
           THEN /\ output_dir' = copy2(output_dir, folder_name,
                                       uploaded_file.name, idx)
                /\ result_folders' = record_result(result_folders, folder_name,
                                                   uploaded_file.name)
           ELSE UNCHANGED <<output_dir, result_folders>>
    /\ idx' = idx + 1
    /\ UNCHANGED <<pc, date, week, image_path, clock, image_date,
                   uploaded_files, tmp_dir, image_files_with_dates, temp_files,
                   frames, processed_count, env, video_filename, ret>>

OrganizeReturn ==
    /\ pc = "organize"
    /\ idx > Len(uploaded_files)
    /\ pc' = "organize_done"
    /\ UNCHANGED <<date, week, image_path, clock, image_date, uploaded_files,
                   idx, result_folders, output_dir, tmp_dir,
                   image_files_with_dates, temp_files, frames, processed_count,
                   env, video_filename, ret>>

NextOrganize == OrganizeOne \/ OrganizeReturn

SpecOrganize == InitOrganize /\ [][NextOrganize]_vars

ImageEntries == { i \in 1..Len(uploaded_files) : is_image(uploaded_files[i]) }
ResolvedDate(i) == get_image_date(tmp_file(uploaded_files[i], clock), clock)
LabelOf(i) == get_week_range(ResolvedDate(i)).folder_name
InLabel(l) == { i \in ImageEntries : LabelOf(i) = l }
\* the k-th smallest element of a set of indices
KthOf(S, k) == CHOOSE i \in S : Cardinality({ j \in S : j < i }) = k - 1
RECURSIVE SumLens(_, _)
SumLens(f, D) ==
    IF D = {} THEN 0
    ELSE LET l == CHOOSE x \in D : TRUE IN Len(f[l]) + SumLens(f, D \ {l})

\* C4: the returned mapping has exactly the labels of the image-type entries,
\* and each label's list is the names of the image-type entries of that week
\* bucket in arrival order; no list is empty and the sizes sum to the number
\* of image-type entries.
C4_GroupsAreArrivalOrdered ==
    pc = "organize_done" =>
        /\ DOMAIN result_folders = { LabelOf(i) : i \in ImageEntries }
        /\ \A l \in DOMAIN result_folders :
              /\ Len(result_folders[l]) >= 1
              /\ Len(result_folders[l]) = Cardinality(InLabel(l))
              /\ \A k \in 1..Len(result_folders[l]) :
                    result_folders[l][k] = uploaded_files[KthOf(InLabel(l), k)].name
        /\ SumLens(result_folders, DOMAIN result_folders)
               = Cardinality(ImageEntries)

C4_Witness ==
    /\ pc = "organize_done"
    /\ Len(uploaded_files) = 3
    /\ ~is_image(uploaded_files[2])
    /\ \E l \in DOMAIN result_folders : result_folders[l] = <<"b.jpg", "a.jpg">>

\* C10: the files stored under each label are as many as the label's list,
\* and the content of every image-type entry is stored under its label.
C10_StoredFilesMatchLists ==
    pc = "organize_done" =>
        /\ \A l \in DOMAIN result_folders :
              Cardinality({ p \in DOMAIN output_dir : p[1] = l })
                  = Len(result_folders[l])
        /\ \A i \in ImageEntries :
              \E p \in DOMAIN output_dir : p[1] = LabelOf(i) /\ output_dir[p] = i

-----------------------------------------------------------------------------
(* create_slideshow_video *)

\* datetime comparison used by the sort key
date_le(a, b) == a.ord < b.ord \/ (a.ord = b.ord /\ a.sec <= b.sec)
date_lt(a, b) == a.ord < b.ord \/ (a.ord = b.ord /\ a.sec < b.sec)

\* x goes behind every element whose date is not later than its own
RECURSIVE insert_after_equal(_, _)
insert_after_equal(s, x) ==
    IF s = <<>> THEN <<x>>
    ELSE IF date_le(s[Len(s)][2], x[2]) THEN Append(s, x)
    ELSE Append(insert_after_equal(SubSeq(s, 1, Len(s) - 1), x), s[Len(s)])

RECURSIVE insert_before_equal(_, _)
insert_before_equal(s, x) ==
    IF s = <<>> THEN <<x>>
    ELSE IF date_lt(s[Len(s)][2], x[2]) THEN Append(s, x)
    ELSE Append(insert_before_equal(SubSeq(s, 1, Len(s) - 1), x), s[Len(s)])

RECURSIVE sort_ties_reversed(_)
sort_ties_reversed(s) ==
    IF s = <<>> THEN <<>>
    ELSE insert_before_equal(sort_ties_reversed(SubSeq(s, 1, Len(s) - 1)),
                             s[Len(s)])

\* list.sort(key = image_date): ascending, equal keys keep their order
RECURSIVE sort_by_date(_)
sort_by_date(s) ==
    IF s = <<>> THEN <<>>
    ELSE insert_after_equal(sort_by_date(SubSeq(s, 1, Len(s) - 1)), s[Len(s)])

\* "YY(MM-DD ~ MM-DD)" is the tuple <<YY, MM, DD, MM, DD>>
range_name(first_date, last_date) ==
    LET f == ord2ymd(first_date.ord)
        l == ord2ymd(last_date.ord)
    IN  <<f.year % 100, f.month, f.day, l.month, l.day>>

\* the label of the output file, from the first and last date of the sorted list
video_name(first_date, last_date) ==
    IF isoweek(first_date) = isoweek(last_date)
    THEN get_week_range(first_date).folder_name
    ELSE range_name(first_date, last_date)

\* cv2.imread(tmp_path) is not None
imread_ok(tmp_path) == uploaded_files[tmp_path].decodable

add_frame_counts_all(written, count, img_path) ==
    IF imread_ok(img_path)
    THEN <<Append(written, img_path), count + 1>>
    ELSE <<written, count + 1>>

\* body of the frame loop: a decoded image is written and counted
add_frame(written, count, img_path) ==
    IF imread_ok(img_path)
    THEN <<Append(written, img_path), count + 1>>
    ELSE <<written, count>>

unlink_all(dir, paths) == dir \ { paths[i] : i \in 1..Len(paths) }

Returned(path, message, count) ==
    [video_path |-> path, message |-> message, count |-> count]
NotReturned == Returned(<<>>, "", 0)

early_return_unchecked_first(sorted, e) ==
    IF ~e.encoder_opens THEN "cannot initialize video writer" ELSE ""

\* the returns before the frame loop; "" when the loop is entered
early_return(sorted, e) ==
    IF ~imread_ok(sorted[1][1]) THEN "cannot read first image"
    ELSE IF ~e.encoder_opens THEN "cannot initialize video writer"
    ELSE ""

SlideUploads ==
    [name : {"a.jpg"}, type : {<<"image", "jpeg">>}, opens : {TRUE},
     exif : { <<>>,
              << <<"DateTimeOriginal", <<2024, 1, 3, 9, 30, 0>>>> >>,
              << <<"DateTimeOriginal", <<2024, 1, 5, 9, 30, 0>>>> >>,
              << <<"DateTime", <<2024, 1, 10, 0, 0, 0>>>> >> },
     decodable : BOOLEAN]
    \cup
    [name : {"n.pdf"}, type : {<<"application", "pdf">>}, opens : {FALSE},
     exif : {<<>>}, decodable : {FALSE}]

\* encoder_opens: video_writer.isOpened(); output_ok: the file exists and is
\* not empty; raises_at: the frame whose resize/write raises (0: none does)
Environments ==
    [encoder_opens : BOOLEAN, output_ok : BOOLEAN, raises_at : 0..2]

InitSlideshow ==
    /\ pc = "collect"
    /\ uploaded_files \in Batches(SlideUploads)
    /\ env \in Environments
    /\ idx = 1
    /\ clock = Now
    /\ image_files_with_dates = <<>> /\ temp_files = <<>> /\ tmp_dir = {}
    /\ frames = <<>> /\ processed_count = 0
    /\ video_filename = <<>> /\ ret = NotReturned
    /\ result_folders = <<>> /\ output_dir = <<>>
    /\ date = NoDate /\ week = NoWeek
    /\ image_path = None /\ image_date = NoDate

\* one iteration of the first for loop: write the temp file, resolve its date
SaveTemp ==
    /\ pc = "collect"
    /\ idx <= Len(uploaded_files)
    /\ LET uploaded_file == uploaded_files[idx]
           d == get_image_date(tmp_file(uploaded_file, clock), clock)
       IN  IF is_image(uploaded_file)
           THEN /\ tmp_dir' = tmp_dir \cup {idx}
                /\ temp_files' = Append(temp_files, idx)
                /\ image_files_with_dates' =
                       Append(image_files_with_dates,
                              <<idx, d, uploaded_file.name>>)
           ELSE UNCHANGED <<tmp_dir, temp_files, image_files_with_dates>>
    /\ idx' = idx + 1
    /\ UNCHANGED <<pc, date, week, image_path, clock, image_date,
                   uploaded_files, result_folders, output_dir, frames,
                   processed_count, env, video_filename, ret>>

\* sort, name the output, read the first image, open the encoder
SortAndOpen ==
    /\ pc = "collect"
    /\ idx > Len(uploaded_files)
    /\ LET sorted == sort_by_date(image_files_with_dates)
       IN  /\ image_files_with_dates' = sorted
           /\ IF sorted = <<>>
              THEN /\ ret' = Returned(<<>>, "no image files", 0)
                   /\ pc' = "slideshow_done"
                   /\ UNCHANGED video_filename
              ELSE /\ video_filename' =
                          video_name(sorted[1][2], sorted[Len(sorted)][2])
                   /\ IF early_return(sorted, env) # ""
                      THEN /\ ret' = Returned(<<>>, early_return(sorted, env), 0)
                           /\ pc' = "slideshow_done"
                      ELSE /\ pc' = "write"
                           /\ UNCHANGED ret
    /\ idx' = 1
    /\ UNCHANGED <<date, week, image_path, clock, image_date, uploaded_files,
                   result_folders, output_dir, tmp_dir, temp_files, frames,
                   processed_count, env>>

\* one iteration of the frame loop
WriteFrame ==
    /\ pc = "write"
    /\ idx <= Len(image_files_with_dates)
    /\ LET img_path == image_files_with_dates[idx][1]
           step     == add_frame(frames, processed_count, img_path)
       IN  /\ ~(imread_ok(img_path) /\ env.raises_at = idx)
           /\ frames' = step[1]
           /\ processed_count' = step[2]
    /\ idx' = idx + 1
    /\ UNCHANGED <<pc, date, week, image_path, clock, image_date,
                   uploaded_files, result_folders, output_dir, tmp_dir,
                   image_files_with_dates, temp_files, env, video_filename,
                   ret>>

\* an exception inside the try block: the except clause unlinks and returns
RaiseInLoop ==
    /\ pc = "write"
    /\ idx <= Len(image_files_with_dates)
    /\ imread_ok(image_files_with_dates[idx][1])
    /\ env.raises_at = idx
    /\ tmp_dir' = unlink_all(tmp_dir, temp_files)
    /\ ret' = Returned(<<>>, "error while creating video", 0)
    /\ pc' = "slideshow_done"
    /\ UNCHANGED <<date, week, image_path, clock, image_date, uploaded_files,
                   idx, result_folders, output_dir, image_files_with_dates,
                   temp_files, frames, processed_count, env, video_filename>>

\* release the encoder, unlink the temp files, check the count and the output
ReleaseAndReturn ==
    /\ pc = "write"
    /\ idx > Len(image_files_with_dates)
    /\ tmp_dir' = unlink_all(tmp_dir, temp_files)
    /\ ret' = IF processed_count = 0
              THEN Returned(<<>>, "no images processed", 0)
              ELSE IF env.output_ok
              THEN Returned(video_filename, "success", processed_count)
              ELSE Returned(<<>>, "video file not created", 0)
    /\ pc' = "slideshow_done"
    /\ UNCHANGED <<date, week, image_path, clock, image_date, uploaded_files,
                   idx, result_folders, output_dir, image_files_with_dates,
                   temp_files, frames, processed_count, env, video_filename>>

NextSlideshow == SaveTemp \/ SortAndOpen \/ WriteFrame \/ RaiseInLoop
                     \/ ReleaseAndReturn

SpecSlideshow == InitSlideshow /\ [][NextSlideshow]_vars

-----------------------------------------------------------------------------
(* Properties of create_slideshow_video *)

Decodable == { i \in ImageEntries : uploaded_files[i].decodable }
FrameSet == { frames[k] : k \in 1..Len(frames) }
\* the frame loop ran to its end
LoopCompleted ==
    /\ pc = "slideshow_done"
    /\ ret.message \in {"success", "no images processed", "video file not created"}
FirstSorted ==
    CHOOSE i \in ImageEntries :
        \A j \in ImageEntries \ {i} :
            \/ date_lt(ResolvedDate(i), ResolvedDate(j))
            \/ (ResolvedDate(i) = ResolvedDate(j) /\ i < j)

\* C5: the frames written so far are decodable images in ascending order of
\* resolved date, equal dates in arrival order, none twice; when the frame
\* loop has run to its end every decodable image has been written.
C5_FramesInStableDateOrder ==
    /\ \A p, q \in 1..Len(frames) :
          p < q =>
              \/ date_lt(ResolvedDate(frames[p]), ResolvedDate(frames[q]))
              \/ /\ ResolvedDate(frames[p]) = ResolvedDate(frames[q])
                 /\ frames[p] < frames[q]
    /\ FrameSet \subseteq Decodable
    /\ processed_count = Len(frames)
    /\ LoopCompleted => FrameSet = Decodable

C5_Witness ==
    /\ LoopCompleted
    /\ Len(frames) = 3
    /\ frames = <<3, 1, 2>>
    /\ ResolvedDate(1) = ResolvedDate(2)

\* C6 as stated: when some image-type entry decodes, the encoder opens,
\* nothing raises and the output file is not empty, the result is a success
\* whose count is the number of decodable entries, wherever the undecodable
\* entries are in sorted order.
C6_SkipNeverAborts ==
    (/\ pc = "slideshow_done"
     /\ Decodable # {}
     /\ env.encoder_opens /\ env.output_ok /\ env.raises_at = 0)
    => /\ ret.message = "success"
       /\ ret.video_path # <<>>
       /\ ret.count = Cardinality(Decodable)

\* C6 amended: the same, for the batches whose first image in sorted order
\* decodes.
C6_SkipAfterFirstNeverAborts ==
    (/\ pc = "slideshow_done"
     /\ ImageEntries # {}
     /\ FirstSorted \in Decodable
     /\ env.encoder_opens /\ env.output_ok /\ env.raises_at = 0)
    => /\ ret.message = "success"
       /\ ret.video_path # <<>>
       /\ ret.count = Cardinality(Decodable)

C6_Witness ==
    /\ pc = "slideshow_done"
    /\ Cardinality(ImageEntries) = 3
    /\ Cardinality(Decodable) = 2
    /\ ret.message = "success" /\ ret.count = 2

\* C7 as stated: without image-type entries the result is absent with "no
\* image files"; with image-type entries none of which decodes it is absent
\* with "no images processed".
C7_NoImagesProcessedWhenNoneDecodes ==
    pc = "slideshow_done" =>
        /\ ImageEntries = {} =>
              ret.video_path = <<>> /\ ret.message = "no image files"
        /\ (ImageEntries # {} /\ Decodable = {}) =>
              ret.video_path = <<>> /\ ret.message = "no images processed"

\* C7 amended: with image-type entries none of which decodes the result is
\* absent with "cannot read first image", which still differs from the "no
\* image files" of a batch without image-type entries.
C7_FirstImageUnreadableWhenNoneDecodes ==
    pc = "slideshow_done" =>
        /\ ImageEntries = {} =>
              ret.video_path = <<>> /\ ret.message = "no image files"
        /\ (ImageEntries # {} /\ Decodable = {}) =>
              ret.video_path = <<>> /\ ret.message = "cannot read first image"

C7_Witness ==
    /\ pc = "slideshow_done"
    /\ Cardinality(ImageEntries) = 2 /\ Decodable = {}
    /\ env.encoder_opens
    /\ ret.message = "cannot read first image"

EarliestDate ==
    CHOOSE d \in { ResolvedDate(i) : i \in ImageEntries } :
        \A i \in ImageEntries : date_le(d, ResolvedDate(i))
LatestDate ==
    CHOOSE d \in { ResolvedDate(i) : i \in ImageEntries } :
        \A i \in ImageEntries : date_le(ResolvedDate(i), d)

\* C8: for a batch with image-type entries the file is named by the single
\* week label of the earliest date only when the earliest and the latest date
\* have the same Monday start, and by the full range label otherwise.
C8_SingleWeekLabelOnlyWithinOneWeek ==
    (pc = "slideshow_done" /\ ImageEntries # {}) =>
        video_filename =
            IF MondayOnOrBefore(EarliestDate.ord) = MondayOnOrBefore(LatestDate.ord)
            THEN get_week_range(EarliestDate).folder_name
            ELSE range_name(EarliestDate, LatestDate)

\* C9: when the function has returned, no temporary file of the batch exists.
C9_NoTempFileLeftOnReturn ==
    pc = "slideshow_done" => tmp_dir = {}

====
